---- MODULE Spec2Model ----
(***************************************************************************)
(* A model of the osm-viewer slope pipeline: the GeoTIFF tile cache        *)
(* (fetchGeoTIFF), the elevation lookup (getElevation), the slope          *)
(* computation (calculateSlopes / calculatePathSlopes), the resampler      *)
(* (generateSamplingPoints), the segment joiner (joinPaths), the color     *)
(* scale (getSlopeColor), the drawing of a batch of paths and the moveend  *)
(* handler of the component (fetchBicyclePaths).                           *)
(*                                                                         *)
(* Geography is abstracted to a small integer grid: a point is <<lon,lat>> *)
(* with integer coordinates, a tile spans TileSpan grid units, and the     *)
(* great-circle distance is a metric on the grid in metres.  Floating      *)
(* point slopes are kept as exact fractions [num, den]; den = 0 stands for *)
(* the IEEE results of a division by zero (Infinity or NaN).               *)
(***************************************************************************)
EXTENDS Integers, Sequences, FiniteSets, TLC

VARIABLES
    component,   \* which component's functions run: "BicycleMap" or "Map"
    tileCache,   \* the Map<string, GeoTIFF>: a set of [key, tiff] entries
    nextFetch,   \* number of fetch() requests issued to the raster store so far
    calls,       \* the calculateSlopes invocations and their getElevation lookups
    \* joinPaths
    segments,    \* the argument: a list of segments, each a list of [lat, lon]
    endpointMap, \* Map<string, {segmentIndex, isStart}>: a set of entries
    visited,     \* Set<number>
    longPaths,   \* the result array
    index,       \* the position of the forEach that is running (1-based)
    path,        \* the path being built by the traversal
    currentEnd,  \* the trailing point of the path being built
    members,     \* per started path, the segment indices it consumed, in order
    jpc,         \* where joinPaths is: "map", "outer", "inner", "done", "off"
    \* generateSamplingPoints
    rPath,       \* the argument path, a list of [lon, lat]
    interval,    \* the argument interval, in metres
    dist,        \* the loop variable
    rPoints,     \* the result array
    rpc,         \* where it is: "loop", "done", "threw", "off"
    \* the component and its moveend handler
    autoLoad,    \* the autoLoad state (Map.tsx); BicycleMap always listens
    handler,     \* the closure registered for moveend (its number), 0 for none
    closures,    \* per registered closure, the tileCache and pathLayers it captured
    pathLayers,  \* the pathLayers state (Map.tsx): the layers last stored
    mapLayers,   \* the path layers on the Leaflet map, named by their invocation
    invocations, \* the fetchBicyclePaths invocations, in the order they started
    everCached,  \* the tile keys that some cache instance has ever held
    \* the paths of one query result
    batch,       \* the paths of data.elements, in order
    bIndex,      \* the position of the for loop of Map.tsx (1-based)
    bOut,        \* per path: where its processing is, its slopes, its polylines
    bpc,         \* where fetchBicyclePaths is: "start", "running", "done", "rejected", "off"
    \* getSlopeColor
    cSlope,      \* two slopes, in hundredths of a percent
    cColor,      \* the colors returned for them
    cpc          \* "start", "done", "off"

cacheVars == <<component, tileCache, nextFetch, calls>>

joinVars == <<segments, endpointMap, visited, longPaths, index, path, currentEnd,
              members, jpc>>

resampleVars == <<rPath, interval, dist, rPoints, rpc>>

viewVars == <<autoLoad, handler, closures, pathLayers, mapLayers, invocations, everCached>>

batchVars == <<batch, bIndex, bOut, bpc>>

colorVars == <<cSlope, cColor, cpc>>

displayVars == <<viewVars, batchVars, colorVars>>

vars == <<cacheVars, joinVars, resampleVars, displayVars>>

(***************************************************************************)
(* Bounds of the model.                                                    *)
(***************************************************************************)
MaxCalls == 2          \* calculateSlopes invocations in one run
MaxLookups == 3        \* getElevation lookups in one run, over all invocations

(***************************************************************************)
(* Program constants.                                                      *)
(***************************************************************************)
zoom == 12             \* getElevation: const zoom = 12

(***************************************************************************)
(* The abstract world and the external raster store.                       *)
(***************************************************************************)
TileSpan == 2          \* grid units covered by one tile at the zoom level
MercatorScale == 2     \* projected metres per grid unit (latLonToMercator)
MetresPerUnit == 100   \* great-circle metres per grid unit

Null == <<>>           \* null (absent); a present number n is <<n>>

Some(n) == <<n>>

Abs(n) == IF n < 0 THEN -n ELSE n

\* Math.floor((lon + 180) / 360 * 2^zoom): the slippy tile column.
lon2tile(lon) == lon \div TileSpan

\* Math.floor((1 - log(tan + sec) / PI) / 2 * 2^zoom): the slippy tile row,
\* counted from the north.
lat2tile(lat) == (1 - lat) \div TileSpan

\* `${z}/${x}/${y}`
TileKeyOf(z, x, y) == <<z, x, y>>

\* The decoded image the store holds for a tile: bounding box in projected
\* metres [west, south, east, north], width, height and the raster band.
\* The tile of column 1 is a cropped image: its box ends before the tile does.
StoreImage(key) ==
    LET west == key[2] * TileSpan * MercatorScale
    IN  [bbox   |-> <<west, -2,
                      IF key[2] = 1 THEN west + 2 ELSE west + TileSpan * MercatorScale,
                      2>>,
         width  |-> 2,
         height |-> 2,
         raster |-> [idx \in 0..3 |-> 100 + 40 * key[2] + 7 * idx * idx + 3 * idx]]

\* latLonToMercator(lat, lon): [x, y] in projected metres.
latLonToMercator(lat, lon) == <<MercatorScale * lon, MercatorScale * lat>>

\* turf.distance / L.latLng.distanceTo: great-circle metres between two points.
GreatCircle(p, q) == MetresPerUnit * (Abs(p[1] - q[1]) + Abs(p[2] - q[2]))

(***************************************************************************)
(* The tile cache: a Map keyed by the tile key string.                     *)
(***************************************************************************)
\* tileCache.has(tileKey)
CacheHas(cache, key) == \E e \in cache : e.key = key

\* tileCache.get(tileKey) || null : the cached GeoTIFF object (its identity)
CacheGet(cache, key) ==
    IF CacheHas(cache, key) THEN (CHOOSE e \in cache : e.key = key).tiff ELSE 0

\* tileCache.set(tileKey, tiff): Map.set replaces the entry of an existing key
CacheSet(cache, key, tiff) ==
    {e \in cache : e.key # key} \cup {[key |-> key, tiff |-> tiff]}

\* Mutant of IsCacheHit: the lookup never finds the key.
IsCacheHitNever(cache, key) == FALSE

\* The first branch of fetchGeoTIFF: the call returns from the cache.
IsCacheHit(cache, key) == CacheHas(cache, key)

(***************************************************************************)
(* getElevation, after the tile has been obtained.                         *)
(***************************************************************************)
\* The tile key getElevation asks fetchGeoTIFF for.
TileOfPoint(p) == TileKeyOf(zoom, lon2tile(p[1]), lat2tile(p[2]))

\* The point in the coordinates that are compared with the bounding box:
\* BicycleMap projects to Mercator metres, Map uses the raw degrees.
BoxCoords(comp, p) ==
    IF comp = "BicycleMap" THEN latLonToMercator(p[2], p[1]) ELSE p

\* Math.floor(((x - bbox[0]) / (bbox[2] - bbox[0])) * width)
pixelX(comp, p, img) ==
    ((BoxCoords(comp, p)[1] - img.bbox[1]) * img.width) \div (img.bbox[3] - img.bbox[1])

\* Math.floor(((bbox[3] - y) / (bbox[3] - bbox[1])) * height)
pixelY(comp, p, img) ==
    ((img.bbox[4] - BoxCoords(comp, p)[2]) * img.height) \div (img.bbox[4] - img.bbox[2])

\* The bounds check of getElevation.
InBounds(px, py, img) == px >= 0 /\ px < img.width /\ py >= 0 /\ py < img.height

\* What a read outside a typed array yields: undefined, no exception.
Undefined == <<0, 0>>

\* rasters[0][idx]
RasterAt(img, idx) ==
    IF idx \in DOMAIN img.raster THEN Some(img.raster[idx]) ELSE Undefined

\* The index getElevation reads the raster at, <<>> when it reads nothing.
ReadIndex(comp, p, img) ==
    LET px == pixelX(comp, p, img)
        py == pixelY(comp, p, img)
    IN  IF InBounds(px, py, img) THEN <<py * img.width + px>> ELSE <<>>

\* The tail of getElevation: the raster value at the pixel, or null.
ReadElevation(comp, p, img) ==
    LET at == ReadIndex(comp, p, img)
    IN  IF at # <<>> THEN RasterAt(img, at[1]) ELSE Null

(***************************************************************************)
(* Slopes.                                                                 *)
(***************************************************************************)
ZeroSlope == [num |-> 0, den |-> 1]

\* Mutant of SlopeFormula: the ratio, not the percentage.
SlopeFormulaRatio(e1, e2, distance) == [num |-> e2 - e1, den |-> distance]

\* ((elevation2 - elevation1) / distance) * 100 in floating point: a zero
\* distance gives Infinity, -Infinity or NaN (den = 0), never an exception.
SlopeFormula(e1, e2, distance) == [num |-> (e2 - e1) * 100, den |-> distance]

\* One iteration of the loop of calculateSlopes (BicycleMap) and of
\* calculatePathSlopes (Map): the latter has no distance guard.
PairSlope(comp, p, q, e1, e2) ==
    IF e1 # Null /\ e2 # Null
    THEN LET distance == GreatCircle(p, q)
         IN  IF comp = "BicycleMap"
             THEN IF distance > 0 THEN SlopeFormula(e1[1], e2[1], distance) ELSE ZeroSlope
             ELSE SlopeFormula(e1[1], e2[1], distance)
    ELSE ZeroSlope

\* Mutant of PromiseAll: the results in the order in which they arrived.
PromiseAllByCompletion(call) ==
    [i \in 1..Len(call.lookups) |-> call.lookups[call.order[i]].elevation]

\* The array Promise.all resolves with: the lookups' results by index,
\* whatever the order (call.order) in which the lookups settled.
PromiseAll(call) == [i \in 1..Len(call.lookups) |-> call.lookups[i].elevation]

\* The elevation of point i averaged with its neighbours', three times over
\* (the sum); a missing neighbour is the point itself, null counts as 0.
SmoothedSum(elevations, i) ==
    LET raw(j) == IF elevations[j] = Null THEN 0 ELSE elevations[j][1]
    IN  raw(IF i = 1 THEN 1 ELSE i - 1) + raw(i)
            + raw(IF i = Len(elevations) THEN i ELSE i + 1)

\* Mutant of SlopeLoop: the slopes of the smoothed elevations.
SlopeLoopSmoothed(comp, points, elevations) ==
    [i \in 1..(Len(elevations) - 1) |->
        IF GreatCircle(points[i], points[i + 1]) > 0
        THEN [num |-> (SmoothedSum(elevations, i + 1) - SmoothedSum(elevations, i)) * 100,
              den |-> 3 * GreatCircle(points[i], points[i + 1])]
        ELSE ZeroSlope]

\* The whole loop: slopes[i] is the slope of elevations[i], elevations[i+1].
SlopeLoop(comp, points, elevations) ==
    [i \in 1..(Len(elevations) - 1) |->
        PairSlope(comp, points[i], points[i + 1], elevations[i], elevations[i + 1])]

(***************************************************************************)
(* Inputs: the sample points handed to calculateSlopes.                    *)
(***************************************************************************)
PtA == <<0, 1>>
PtB == <<1, 0>>
PtC == <<2, 1>>
PtD == <<3, 0>>        \* lies in tile column 1, outside that tile's cropped image
PtE == <<1, 1>>        \* 100 m east of PtA

SamplePaths ==
    { <<PtA>>, <<PtA, PtB>>, <<PtA, PtE>>, <<PtB, PtB>>, <<PtC, PtA>>, <<PtD, PtC>>,
      <<PtA, PtB, PtC>>, <<PtC, PtC, PtB>>, <<PtB, PtD, PtA>> }

Components == {"BicycleMap", "Map"}

CallIds == 1..MaxCalls

IdleCall == [status |-> "idle", points |-> <<>>, lookups |-> <<>>,
             order |-> <<>>, slopes |-> <<>>]

TotalLookups == LET RECURSIVE Sum(_)
                    Sum(c) == IF c = 0 THEN 0 ELSE Len(calls[c].lookups) + Sum(c - 1)
                IN  Sum(MaxCalls)

(***************************************************************************)
(* fetchGeoTIFF up to its first await, as run by getElevation for the      *)
(* i-th point of a calculateSlopes call.  The map() callback runs all the  *)
(* lookups synchronously up to their first await, so they all see the      *)
(* same cache.  A miss issues fetch(url) and suspends.                     *)
(***************************************************************************)
\* Mutant of MissesUpTo: one request per distinct missing key.
MissesUpToCoalesced(cache, points, i) ==
    Cardinality({TileOfPoint(points[j]) : j \in
                    {k \in 1..i : ~IsCacheHit(cache, TileOfPoint(points[k]))}})

\* The number of fetch(url) requests issued by the lookups 1..i of a call.
MissesUpTo(cache, points, i) ==
    Cardinality({j \in 1..i : ~IsCacheHit(cache, TileOfPoint(points[j]))})

StartLookup(cache, fetched, points, i) ==
    LET key == TileOfPoint(points[i])
    IN  IF IsCacheHit(cache, key)
        THEN [pc |-> "reading", key |-> key, fetchId |-> 0,
              tiff |-> CacheGet(cache, key), elevation |-> Null, fetches |-> 0,
              outcome |-> "none", read |-> <<>>,
              cachedAtStart |-> CacheHas(cache, key), cachedTiff |-> CacheGet(cache, key)]
        ELSE [pc |-> "fetching", key |-> key,
              fetchId |-> fetched + MissesUpTo(cache, points, i),
              tiff |-> 0, elevation |-> Null, fetches |-> 1,
              outcome |-> "none", read |-> <<>>,
              cachedAtStart |-> CacheHas(cache, key), cachedTiff |-> CacheGet(cache, key)]

\* What follows the settling of a lookup: Promise.all rejects with the first
\* rejection, and resolves once every lookup has resolved; calculateSlopes
\* then runs its loop.
AfterSettle(comp, call) ==
    IF call.status # "awaiting" THEN call
    ELSE IF \E i \in 1..Len(call.lookups) : call.lookups[i].pc = "rejected"
         THEN [call EXCEPT !.status = "rejected"]
    ELSE IF \A i \in 1..Len(call.lookups) : call.lookups[i].pc = "done"
         THEN [call EXCEPT !.status = "resolved",
                           !.slopes = SlopeLoop(comp, call.points, PromiseAll(call))]
    ELSE call

(***************************************************************************)
(* Actions.                                                                *)
(***************************************************************************)
\* joinPaths is not running.
JoinOff ==
    /\ segments = <<>>
    /\ endpointMap = {}
    /\ visited = {}
    /\ longPaths = <<>>
    /\ index = 0
    /\ path = <<>>
    /\ currentEnd = <<>>
    /\ members = <<>>
    /\ jpc = "off"

\* generateSamplingPoints is not running.
ResampleOff ==
    /\ rPath = <<>>
    /\ interval = 0
    /\ dist = 0
    /\ rPoints = <<>>
    /\ rpc = "off"

\* No moveend handler has been registered and nothing has been drawn.
ViewOff ==
    /\ autoLoad = FALSE
    /\ handler = 0
    /\ closures = <<>>
    /\ pathLayers = {}
    /\ mapLayers = {}
    /\ invocations = <<>>
    /\ everCached = {}

\* No query result is being drawn.
BatchOff ==
    /\ batch = <<>>
    /\ bIndex = 0
    /\ bOut = <<>>
    /\ bpc = "off"

\* getSlopeColor is not running.
ColorOff ==
    /\ cSlope = <<>>
    /\ cColor = <<>>
    /\ cpc = "off"

DisplayOff == ViewOff /\ BatchOff /\ ColorOff

\* The component is mounted: an empty cache, nothing requested.
CacheOff ==
    /\ component = "BicycleMap"
    /\ tileCache = {}
    /\ nextFetch = 0
    /\ calls = [c \in CallIds |-> IdleCall]

Init ==
    /\ component \in Components
    /\ tileCache = {}
    /\ nextFetch = 0
    /\ calls = [c \in CallIds |-> IdleCall]
    /\ JoinOff
    /\ ResampleOff
    /\ DisplayOff

\* calculateSlopes(samplingPoints) / calculatePathSlopes(latlngs) is invoked:
\* samplingPoints.map(getElevation) starts every lookup.
CalculateSlopes(c, points) ==
    /\ calls[c].status = "idle"
    /\ IF c = 1 THEN TRUE ELSE calls[c - 1].status # "idle"
    /\ TotalLookups + Len(points) <= MaxLookups
    /\ calls' = [calls EXCEPT ![c] =
            [status  |-> "awaiting",
             points  |-> points,
             lookups |-> [i \in 1..Len(points) |->
                             StartLookup(tileCache, nextFetch, points, i)],
             order   |-> <<>>,
             slopes  |-> <<>>]]
    /\ nextFetch' = nextFetch + MissesUpTo(tileCache, points, Len(points))
    /\ UNCHANGED <<component, tileCache, joinVars, resampleVars, displayVars>>

\* fetch(url) resolves with response.ok: fetchGeoTIFF goes on to decode.
FetchOk(c, i) ==
    /\ calls[c].status # "idle"
    /\ i \in 1..Len(calls[c].lookups)
    /\ calls[c].lookups[i].pc = "fetching"
    /\ calls' = [calls EXCEPT ![c].lookups[i].pc = "decoding",
                              ![c].lookups[i].outcome = "ok"]
    /\ UNCHANGED <<component, tileCache, nextFetch, joinVars, resampleVars, displayVars>>

\* fetch(url) resolves with a non-success response: fetchGeoTIFF logs and
\* returns null, getElevation returns null.
FetchNotOk(c, i) ==
    /\ calls[c].status # "idle"
    /\ i \in 1..Len(calls[c].lookups)
    /\ calls[c].lookups[i].pc = "fetching"
    /\ calls' = [calls EXCEPT ![c] =
            AfterSettle(component,
                [calls[c] EXCEPT !.lookups[i].pc = "done",
                                 !.lookups[i].outcome = "notok",
                                 !.lookups[i].elevation = Null,
                                 !.order = Append(calls[c].order, i)])]
    /\ UNCHANGED <<component, tileCache, nextFetch, joinVars, resampleVars, displayVars>>

\* fetch(url) rejects (transport error): nothing catches it, so fetchGeoTIFF,
\* getElevation and Promise.all reject in turn.
FetchError(c, i) ==
    /\ calls[c].status # "idle"
    /\ i \in 1..Len(calls[c].lookups)
    /\ calls[c].lookups[i].pc = "fetching"
    /\ calls' = [calls EXCEPT ![c] =
            AfterSettle(component,
                [calls[c] EXCEPT !.lookups[i].pc = "rejected",
                                 !.lookups[i].outcome = "neterr",
                                 !.order = Append(calls[c].order, i)])]
    /\ UNCHANGED <<component, tileCache, nextFetch, joinVars, resampleVars, displayVars>>

\* response.arrayBuffer() and GeoTIFF.fromArrayBuffer() resolve:
\* tileCache.set(tileKey, tiff); return tiff.
Decode(c, i) ==
    /\ calls[c].status # "idle"
    /\ i \in 1..Len(calls[c].lookups)
    /\ calls[c].lookups[i].pc = "decoding"
    /\ tileCache' = CacheSet(tileCache, calls[c].lookups[i].key, calls[c].lookups[i].fetchId)
    /\ calls' = [calls EXCEPT ![c].lookups[i].pc = "reading",
                              ![c].lookups[i].tiff = calls[c].lookups[i].fetchId]
    /\ UNCHANGED <<component, nextFetch, joinVars, resampleVars, displayVars>>

\* tiff.getImage() and image.readRasters() resolve: getElevation computes the
\* pixel, checks the bounds and returns the raster value or null.
ReadRaster(c, i) ==
    /\ calls[c].status # "idle"
    /\ i \in 1..Len(calls[c].lookups)
    /\ calls[c].lookups[i].pc = "reading"
    /\ calls' = [calls EXCEPT ![c] =
            AfterSettle(component,
                [calls[c] EXCEPT !.lookups[i].pc = "done",
                                 !.lookups[i].elevation =
                                     ReadElevation(component, calls[c].points[i],
                                                   StoreImage(calls[c].lookups[i].key)),
                                 !.lookups[i].read =
                                     ReadIndex(component, calls[c].points[i],
                                               StoreImage(calls[c].lookups[i].key)),
                                 !.order = Append(calls[c].order, i)])]
    /\ UNCHANGED <<component, tileCache, nextFetch, joinVars, resampleVars, displayVars>>

Next ==
    \/ \E c \in CallIds, points \in SamplePaths : CalculateSlopes(c, points)
    \/ \E c \in CallIds, i \in 1..MaxLookups : FetchOk(c, i)
    \/ \E c \in CallIds, i \in 1..MaxLookups : FetchNotOk(c, i)
    \/ \E c \in CallIds, i \in 1..MaxLookups : FetchError(c, i)
    \/ \E c \in CallIds, i \in 1..MaxLookups : Decode(c, i)
    \/ \E c \in CallIds, i \in 1..MaxLookups : ReadRaster(c, i)

Spec == Init /\ [][Next]_vars

(***************************************************************************)
(* joinPaths.  A coordinate is an integer number of half micro-degrees, so *)
(* that toFixed(6) has something to round.  Indices are 1-based here and   *)
(* 0-based in the code.                                                    *)
(***************************************************************************)
MaxSegments == 3       \* segments in the list handed to joinPaths

\* v.toFixed(6): the coordinate rounded to a whole micro-degree
toFixed6(v) == (v + 1) \div 2

\* getPointKey([lat, lon]) = `${lat.toFixed(6)},${lon.toFixed(6)}`
getPointKey(p) == <<toFixed6(p[1]), toFixed6(p[2])>>

Last(seq) == seq[Len(seq)]

\* Mutant of Front: the whole sequence, shared endpoint included.
FrontKeepAll(seq) == seq

\* seq.slice(0, -1)
Front(seq) == SubSeq(seq, 1, Len(seq) - 1)

\* seq.reverse()
Reverse(seq) == [i \in 1..Len(seq) |-> seq[Len(seq) + 1 - i]]

\* endpointMap.set(key, {segmentIndex, isStart}): replaces the key's entry
EndpointSet(map, key, segmentIndex, isStart) ==
    {e \in map : e.key # key}
        \cup {[key |-> key, segmentIndex |-> segmentIndex, isStart |-> isStart]}

\* endpointMap.get(key): the set holding the entry, empty when undefined
EndpointGet(map, key) == {e \in map : e.key = key}

\* Mutant of OuterSkip: the traversal starts a path at every segment.
OuterSkipNever(v, i) == FALSE

\* if (visited.has(index)) return;
OuterSkip(v, i) == i \in v

\* Mutant of Connects: the loop goes on at any connection, visited or not.
ConnectsIgnoringVisited(map, v, end) == EndpointGet(map, getPointKey(end)) # {}

\* The inner loop goes on: connection && !visited.has(connection.segmentIndex)
Connects(map, v, end) ==
    \E e \in EndpointGet(map, getPointKey(end)) : e.segmentIndex \notin v

Connection(map, end) == CHOOSE e \in EndpointGet(map, getPointKey(end)) : TRUE

JP0 == <<0, 0>>
JP1 == <<2, 0>>
JP1n == <<1, 0>>       \* another point, with the key of JP1
JP2 == <<4, 0>>
JP3 == <<2, 2>>

JoinSegments ==
    { <<JP0, JP1>>, <<JP1, JP0>>, <<JP1, JP2>>, <<JP2, JP1>>, <<JP1, JP3>>,
      <<JP3, JP1>>, <<JP2, JP0>>, <<JP0, JP3, JP0>>, <<JP0, JP3, JP1>>,
      <<JP1n, JP2>>, <<JP2, JP1n>>, <<JP2, JP2>> }

SegmentLists == UNION {[1..n -> JoinSegments] : n \in 0..MaxSegments}

\* joinPaths(segments) is called.
JoinInit ==
    /\ segments \in SegmentLists
    /\ endpointMap = {}
    /\ visited = {}
    /\ longPaths = <<>>
    /\ index = 1
    /\ path = <<>>
    /\ currentEnd = <<>>
    /\ members = <<>>
    /\ jpc = "map"
    /\ CacheOff
    /\ ResampleOff
    /\ DisplayOff

\* One iteration of the first forEach: both endpoints of the segment.
MapEndpoints ==
    /\ jpc = "map"
    /\ index <= Len(segments)
    /\ endpointMap' =
          EndpointSet(EndpointSet(endpointMap, getPointKey(segments[index][1]), index, TRUE),
                      getPointKey(Last(segments[index])), index, FALSE)
    /\ index' = index + 1
    /\ UNCHANGED <<segments, visited, longPaths, path, currentEnd, members, jpc,
                   cacheVars, resampleVars, displayVars>>

\* The first forEach ends; the traversal forEach begins.
MapDone ==
    /\ jpc = "map"
    /\ index > Len(segments)
    /\ jpc' = "outer"
    /\ index' = 1
    /\ UNCHANGED <<segments, endpointMap, visited, longPaths, path, currentEnd, members,
                   cacheVars, resampleVars, displayVars>>

\* An iteration of the traversal forEach at a visited segment.
SkipVisited ==
    /\ jpc = "outer"
    /\ index <= Len(segments)
    /\ OuterSkip(visited, index)
    /\ index' = index + 1
    /\ UNCHANGED <<segments, endpointMap, visited, longPaths, path, currentEnd, members,
                   jpc, cacheVars, resampleVars, displayVars>>

\* An iteration of the traversal forEach at an unvisited segment: a new path.
StartPath ==
    /\ jpc = "outer"
    /\ index <= Len(segments)
    /\ ~OuterSkip(visited, index)
    /\ path' = segments[index]
    /\ visited' = visited \cup {index}
    /\ currentEnd' = Last(segments[index])
    /\ members' = Append(members, <<index>>)
    /\ jpc' = "inner"
    /\ UNCHANGED <<segments, endpointMap, longPaths, index, cacheVars, resampleVars, displayVars>>

\* An iteration of while (true) that finds an unvisited connection.
ConsumeConnection ==
    /\ jpc = "inner"
    /\ Connects(endpointMap, visited, currentEnd)
    /\ LET connection == Connection(endpointMap, currentEnd)
           nextSegment == segments[connection.segmentIndex]
           joined == path \o (IF connection.isStart THEN Tail(nextSegment)
                                                    ELSE Reverse(Front(nextSegment)))
       IN  /\ visited' = visited \cup {connection.segmentIndex}
           /\ path' = joined
           /\ currentEnd' = Last(joined)
           /\ members' = [members EXCEPT ![Len(members)] =
                              Append(@, connection.segmentIndex)]
    /\ UNCHANGED <<segments, endpointMap, longPaths, index, jpc, cacheVars, resampleVars, displayVars>>

\* The break of while (true), and longPaths.push(path).
EndPath ==
    /\ jpc = "inner"
    /\ ~Connects(endpointMap, visited, currentEnd)
    /\ longPaths' = Append(longPaths, path)
    /\ path' = <<>>
    /\ currentEnd' = <<>>
    /\ index' = index + 1
    /\ jpc' = "outer"
    /\ UNCHANGED <<segments, endpointMap, visited, members, cacheVars, resampleVars, displayVars>>

\* return longPaths
JoinReturn ==
    /\ jpc = "outer"
    /\ index > Len(segments)
    /\ jpc' = "done"
    /\ UNCHANGED <<segments, endpointMap, visited, longPaths, index, path, currentEnd,
                   members, cacheVars, resampleVars, displayVars>>

NextJoin ==
    \/ MapEndpoints
    \/ MapDone
    \/ SkipVisited
    \/ StartPath
    \/ ConsumeConnection
    \/ EndPath
    \/ JoinReturn

JoinSpec == JoinInit /\ [][NextJoin]_vars

\* joinPaths is synchronous code: once called it runs on, step after step.
JoinFairSpec == JoinSpec /\ WF_vars(NextJoin)

(***************************************************************************)
(* generateSamplingPoints.  turf.length and turf.along are the library's:  *)
(* the length of the line in metres, and the point of the line at a        *)
(* distance from its start, the last vertex when the distance is longer.   *)
(***************************************************************************)
MaxVertices == 3       \* vertices of the path handed to generateSamplingPoints

\* turf.length(turf.lineString(path), {units: 'meters'})
LineLength(line) ==
    LET RECURSIVE Sum(_)
        Sum(i) == IF i >= Len(line) THEN 0
                  ELSE GreatCircle(line[i], line[i + 1]) + Sum(i + 1)
    IN  Sum(1)

\* turf.along(turf.lineString(path), d, {units: 'meters'}).geometry.coordinates
Along(line, d) ==
    LET RECURSIVE Walk(_, _)
        Walk(i, travelled) ==
            IF i >= Len(line) THEN Last(line)
            ELSE LET leg == GreatCircle(line[i], line[i + 1])
                 IN  IF d < travelled + leg
                     THEN <<line[i][1] + ((line[i + 1][1] - line[i][1]) * (d - travelled)) \div leg,
                            line[i][2] + ((line[i + 1][2] - line[i][2]) * (d - travelled)) \div leg>>
                     ELSE Walk(i + 1, travelled + leg)
    IN  Walk(1, 0)

Grid == (0..2) \X (0..1)

\* The lines whose legs run along one axis (so that the points at whole
\* multiples of MetresPerUnit are grid points), single points included.
ResamplePaths ==
    {line \in UNION {[1..n -> Grid] : n \in 1..MaxVertices} :
        \A i \in 1..(Len(line) - 1) :
            line[i][1] = line[i + 1][1] \/ line[i][2] = line[i + 1][2]}

\* fetchBicyclePaths passes 100; the others exercise the parameter.
Intervals == {100, 200, 300}

\* The loop condition: dist <= totalLength
LoopGoesOn(d, totalLength) == d <= totalLength

\* generateSamplingPoints(path, interval) is called.
ResampleInit ==
    /\ rPath \in ResamplePaths
    /\ interval \in Intervals
    /\ dist = 0
    /\ rPoints = <<>>
    /\ rpc = "start"
    /\ CacheOff
    /\ JoinOff
    /\ DisplayOff

\* turf.lineString(path) throws for a path of fewer than two positions.
LineStringThrows ==
    /\ rpc = "start"
    /\ Len(rPath) < 2
    /\ rpc' = "threw"
    /\ UNCHANGED <<rPath, interval, dist, rPoints, cacheVars, joinVars, displayVars>>

\* totalLength is computed and the loop is entered with dist = 0.
MeasureLength ==
    /\ rpc = "start"
    /\ Len(rPath) >= 2
    /\ rpc' = "loop"
    /\ UNCHANGED <<rPath, interval, dist, rPoints, cacheVars, joinVars, displayVars>>

\* One iteration: points.push(along(path, dist)); dist += interval.
SampleStep ==
    /\ rpc = "loop"
    /\ LoopGoesOn(dist, LineLength(rPath))
    /\ rPoints' = Append(rPoints, Along(rPath, dist))
    /\ dist' = dist + interval
    /\ UNCHANGED <<rPath, interval, rpc, cacheVars, joinVars, displayVars>>

\* The loop ends: return points.
ResampleReturn ==
    /\ rpc = "loop"
    /\ ~LoopGoesOn(dist, LineLength(rPath))
    /\ rpc' = "done"
    /\ UNCHANGED <<rPath, interval, dist, rPoints, cacheVars, joinVars, displayVars>>

NextResample ==
    \/ LineStringThrows
    \/ MeasureLength
    \/ SampleStep
    \/ ResampleReturn

ResampleSpec == ResampleInit /\ [][NextResample]_vars

(***************************************************************************)
(* getSlopeColor.  A slope is a whole number of hundredths of a percent.   *)
(* A color is its three channel weights; blue is in thousandths, since     *)
(* BicycleMap does not round it.                                           *)
(***************************************************************************)
SlopeUnit == 100       \* hundredths of a percent in one percent

\* Math.min(Math.max(slope, -10), 10)
Clamp(slope) ==
    IF slope < -10 * SlopeUnit THEN -10 * SlopeUnit
    ELSE IF slope > 10 * SlopeUnit THEN 10 * SlopeUnit
    ELSE slope

\* The CSS colors 'green', 'yellow' and 'red'.
NamedColor(name) ==
    IF name = "green" THEN [red |-> 0, green |-> 128, blue |-> 0]
    ELSE IF name = "yellow" THEN [red |-> 255, green |-> 255, blue |-> 0]
    ELSE [red |-> 255, green |-> 0, blue |-> 0]

\* getSlopeColor(slope) of the component
getSlopeColor(comp, slope) ==
    IF comp = "BicycleMap"
    THEN LET clampedSlope == Clamp(slope)
         IN  [red   |-> IF clampedSlope > 0
                        THEN (clampedSlope * 255) \div (10 * SlopeUnit) ELSE 0,
              green |-> IF clampedSlope < 0
                        THEN (-clampedSlope * 255) \div (10 * SlopeUnit) ELSE 0,
              blue  |-> ((255 * 10 * SlopeUnit - Abs(clampedSlope) * 255) * 1000)
                            \div (10 * SlopeUnit)]
    ELSE IF slope < 5 * SlopeUnit THEN NamedColor("green")
    ELSE IF slope < 10 * SlopeUnit THEN NamedColor("yellow")
    ELSE NamedColor("red")

\* Slopes inside the range, at its bounds and beyond them, some of them
\* close to each other.
SlopeValues ==
    {-1500, -1000, -700, -200, -2, -1, 0, 1, 2, 100, 101, 499, 500, 600, 999, 1000, 1500}

\* Two slopes are about to be colored.
ColorInit ==
    /\ component \in Components
    /\ tileCache = {}
    /\ nextFetch = 0
    /\ calls = [c \in CallIds |-> IdleCall]
    /\ JoinOff
    /\ ResampleOff
    /\ ViewOff
    /\ BatchOff
    /\ cSlope \in SlopeValues \X SlopeValues
    /\ cColor = <<>>
    /\ cpc = "start"

\* getSlopeColor is applied to both.
ColorBoth ==
    /\ cpc = "start"
    /\ cColor' = <<getSlopeColor(component, cSlope[1]), getSlopeColor(component, cSlope[2])>>
    /\ cpc' = "done"
    /\ UNCHANGED <<cSlope, cacheVars, joinVars, resampleVars, viewVars, batchVars>>

NextColor == ColorBoth

ColorSpec == ColorInit /\ [][NextColor]_vars

(***************************************************************************)
(* The drawing of the paths of one query result: displayPathsWithSlopes    *)
(* run by segments.forEach(async ...) in BicycleMap.tsx, the for loop of   *)
(* fetchBicyclePaths in Map.tsx.  The lookups of a path find their tiles   *)
(* (avail), or get a non-success response for them, or reject.             *)
(***************************************************************************)
MaxBatch == 3          \* paths in one query result

SamplingInterval == 100     \* displayPathsWithSlopes(map, path, 100)

RECURSIVE SamplesFrom(_, _, _)
\* The iterations of the loop of generateSamplingPoints from dist = d on.
SamplesFrom(line, d, step) ==
    IF LoopGoesOn(d, LineLength(line))
    THEN <<Along(line, d)>> \o SamplesFrom(line, d + step, step)
    ELSE <<>>

\* generateSamplingPoints(path, interval), for a path turf.lineString takes
generateSamplingPoints(line, step) == SamplesFrom(line, 0, step)

\* The points whose elevations and slopes are computed and between which
\* the polylines are drawn: the sampling points in BicycleMap.tsx, the
\* vertices (latlngs) in Map.tsx.
DrawnPoints(comp, line) ==
    IF comp = "BicycleMap" THEN generateSamplingPoints(line, SamplingInterval) ELSE line

\* What Promise.all resolves with for the points.
ElevationsOf(comp, points, avail) ==
    [i \in 1..Len(points) |->
        IF avail THEN ReadElevation(comp, points[i], StoreImage(TileOfPoint(points[i])))
        ELSE Null]

\* The slopes of a path and the number of polylines drawn for it.
Displayed(comp, line, avail) ==
    LET points == DrawnPoints(comp, line)
    IN  [pc     |-> "drawn",
         slopes |-> SlopeLoop(comp, points, ElevationsOf(comp, points, avail)),
         drawn  |-> Len(points) - 1]

NotDisplayed(pc) == [pc |-> pc, slopes |-> <<>>, drawn |-> 0]

BatchPaths == { <<PtA>>, <<PtE, PtE>>, <<PtA, PtE>>, <<PtA, PtC>> }

\* The query has returned data.elements.
BatchInit ==
    /\ component \in Components
    /\ tileCache = {}
    /\ nextFetch = 0
    /\ calls = [c \in CallIds |-> IdleCall]
    /\ JoinOff
    /\ ResampleOff
    /\ ViewOff
    /\ ColorOff
    /\ batch \in UNION {[1..n -> BatchPaths] : n \in 1..MaxBatch}
    /\ bIndex = 1
    /\ bOut = [k \in 1..Len(batch) |-> NotDisplayed("pending")]
    /\ bpc = "start"

\* BicycleMap.tsx: segments.forEach(async path => ...) runs every callback
\* up to its first await; generateSamplingPoints throws in the callback of
\* a path of fewer than two positions, whose promise nobody awaits.
StartCallbacks ==
    /\ component = "BicycleMap"
    /\ bpc = "start"
    /\ bOut' = [k \in 1..Len(batch) |->
                   NotDisplayed(IF Len(batch[k]) < 2 THEN "threw" ELSE "awaiting")]
    /\ bpc' = "running"
    /\ UNCHANGED <<batch, bIndex, cacheVars, joinVars, resampleVars, viewVars, colorVars>>

\* BicycleMap.tsx: the slopes of a path resolve and its polylines are drawn.
PathDrawn(k, avail) ==
    /\ component = "BicycleMap"
    /\ k \in 1..Len(batch)
    /\ bOut[k].pc = "awaiting"
    /\ bOut' = [bOut EXCEPT ![k] = Displayed(component, batch[k], avail)]
    /\ UNCHANGED <<batch, bIndex, bpc, cacheVars, joinVars, resampleVars, viewVars, colorVars>>

\* BicycleMap.tsx: a lookup of the path rejects, and its callback with it.
PathRejects(k) ==
    /\ component = "BicycleMap"
    /\ k \in 1..Len(batch)
    /\ bOut[k].pc = "awaiting"
    /\ bOut' = [bOut EXCEPT ![k] = NotDisplayed("rejected")]
    /\ UNCHANGED <<batch, bIndex, bpc, cacheVars, joinVars, resampleVars, viewVars, colorVars>>

\* BicycleMap.tsx: the last callback has settled.
CallbacksSettled ==
    /\ component = "BicycleMap"
    /\ bpc = "running"
    /\ \A k \in 1..Len(batch) : bOut[k].pc # "awaiting"
    /\ bpc' = "done"
    /\ UNCHANGED <<batch, bIndex, bOut, cacheVars, joinVars, resampleVars, viewVars, colorVars>>

\* Map.tsx: one iteration of for (const element of data.elements).
ProcessElement(avail) ==
    /\ component = "Map"
    /\ bpc \in {"start", "running"}
    /\ bIndex <= Len(batch)
    /\ bOut' = [bOut EXCEPT ![bIndex] = Displayed(component, batch[bIndex], avail)]
    /\ bIndex' = bIndex + 1
    /\ bpc' = "running"
    /\ UNCHANGED <<batch, cacheVars, joinVars, resampleVars, viewVars, colorVars>>

\* Map.tsx: a lookup of the element rejects, and fetchBicyclePaths with it.
ElementRejects ==
    /\ component = "Map"
    /\ bpc \in {"start", "running"}
    /\ bIndex <= Len(batch)
    /\ Len(batch[bIndex]) >= 1
    /\ bOut' = [bOut EXCEPT ![bIndex] = NotDisplayed("rejected")]
    /\ bpc' = "rejected"
    /\ UNCHANGED <<batch, bIndex, cacheVars, joinVars, resampleVars, viewVars, colorVars>>

\* Map.tsx: the loop ends; setPathLayers(newLayers).
BatchReturns ==
    /\ component = "Map"
    /\ bpc \in {"start", "running"}
    /\ bIndex > Len(batch)
    /\ bpc' = "done"
    /\ UNCHANGED <<batch, bIndex, bOut, cacheVars, joinVars, resampleVars, viewVars, colorVars>>

NextBatch ==
    \/ StartCallbacks
    \/ \E k \in 1..MaxBatch, avail \in BOOLEAN : PathDrawn(k, avail)
    \/ \E k \in 1..MaxBatch : PathRejects(k)
    \/ CallbacksSettled
    \/ \E avail \in BOOLEAN : ProcessElement(avail)
    \/ ElementRejects
    \/ BatchReturns

BatchSpec == BatchInit /\ [][NextBatch]_vars

(***************************************************************************)
(* The component and its moveend handler.  A render creates a tileCache    *)
(* and a fetchBicyclePaths that closes over it and over the pathLayers of  *)
(* that render; only the closures registered for moveend ever run, so      *)
(* only they are kept.  An invocation asks for the paths of the viewport,  *)
(* looks their elevations up (one tile key stands for the viewport's) and  *)
(* draws; the layers it draws are named by its number.                     *)
(***************************************************************************)
MaxMoves == 3          \* moveend events in one run
MaxRegistrations == 2  \* times the moveend handler is registered in one run

Closure(layers) == [tileCache |-> {}, pathLayers |-> layers]

\* The component has mounted and its effects have run.  BicycleMap.tsx
\* registers its handler once, when the map is set; Map.tsx starts with
\* autoLoad false and no handler.
ViewInit ==
    /\ component \in Components
    /\ tileCache = {}
    /\ nextFetch = 0
    /\ calls = [c \in CallIds |-> IdleCall]
    /\ JoinOff
    /\ ResampleOff
    /\ BatchOff
    /\ ColorOff
    /\ autoLoad = (component = "BicycleMap")
    /\ handler = (IF component = "BicycleMap" THEN 1 ELSE 0)
    /\ closures = (IF component = "BicycleMap" THEN <<Closure({})>> ELSE <<>>)
    /\ pathLayers = {}
    /\ mapLayers = {}
    /\ invocations = <<>>
    /\ everCached = {}

\* Map.tsx: the checkbox changes; setAutoLoad re-renders, the effect's
\* cleanup takes the handler off and, when autoLoad is now true, the effect
\* registers the fetchBicyclePaths of this render.
SetAutoLoad ==
    /\ component = "Map"
    /\ autoLoad \/ Len(closures) < MaxRegistrations
    /\ autoLoad' = ~autoLoad
    /\ IF autoLoad
       THEN handler' = 0 /\ UNCHANGED closures
       ELSE /\ closures' = Append(closures, Closure(pathLayers))
            /\ handler' = Len(closures) + 1
    /\ UNCHANGED <<pathLayers, mapLayers, invocations, everCached,
                   cacheVars, joinVars, resampleVars, batchVars, colorVars>>

\* moveend: the registered fetchBicyclePaths runs up to its first await.
\* Map.tsx removes the layers of its own pathLayers and calls
\* setPathLayers([]); BicycleMap.tsx removes nothing.
MoveEnd(key) ==
    /\ handler # 0
    /\ Len(invocations) < MaxMoves
    /\ invocations' = Append(invocations,
                          [closure |-> handler, key |-> key, pc |-> "query",
                           known |-> FALSE, hit |-> FALSE])
    /\ IF component = "Map"
       THEN /\ mapLayers' = mapLayers \ closures[handler].pathLayers
            /\ pathLayers' = {}
       ELSE UNCHANGED <<mapLayers, pathLayers>>
    /\ UNCHANGED <<autoLoad, handler, closures, everCached,
                   cacheVars, joinVars, resampleVars, batchVars, colorVars>>

\* The query's fetch rejects, and the invocation with it.
QueryRejects(i) ==
    /\ i \in 1..Len(invocations)
    /\ invocations[i].pc = "query"
    /\ invocations' = [invocations EXCEPT ![i].pc = "failed"]
    /\ UNCHANGED <<autoLoad, handler, closures, pathLayers, mapLayers, everCached,
                   cacheVars, joinVars, resampleVars, batchVars, colorVars>>

\* The query returns and the elevation lookup reaches fetchGeoTIFF, which
\* tests the tileCache of its closure.
QueryReturns(i) ==
    /\ i \in 1..Len(invocations)
    /\ invocations[i].pc = "query"
    /\ LET cache == closures[invocations[i].closure].tileCache
       IN  invocations' = [invocations EXCEPT
               ![i].known = invocations[i].key \in everCached,
               ![i].hit = IsCacheHit(cache, invocations[i].key),
               ![i].pc = IF IsCacheHit(cache, invocations[i].key)
                         THEN "draw" ELSE "fetching"]
    /\ UNCHANGED <<autoLoad, handler, closures, pathLayers, mapLayers, everCached,
                   cacheVars, joinVars, resampleVars, batchVars, colorVars>>

\* The tile arrives: tileCache.set(tileKey, tiff) on the closure's cache.
TileFetched(i) ==
    /\ i \in 1..Len(invocations)
    /\ invocations[i].pc = "fetching"
    /\ closures' = [closures EXCEPT ![invocations[i].closure].tileCache =
                        CacheSet(@, invocations[i].key, i)]
    /\ everCached' = everCached \cup {invocations[i].key}
    /\ invocations' = [invocations EXCEPT ![i].pc = "draw"]
    /\ UNCHANGED <<autoLoad, handler, pathLayers, mapLayers,
                   cacheVars, joinVars, resampleVars, batchVars, colorVars>>

\* The response is not ok: no elevation, the slopes are 0, the paths are
\* drawn all the same.
TileNotOk(i) ==
    /\ i \in 1..Len(invocations)
    /\ invocations[i].pc = "fetching"
    /\ invocations' = [invocations EXCEPT ![i].pc = "draw"]
    /\ UNCHANGED <<autoLoad, handler, closures, pathLayers, mapLayers, everCached,
                   cacheVars, joinVars, resampleVars, batchVars, colorVars>>

\* The tile's fetch rejects: nothing is drawn.
TileRejects(i) ==
    /\ i \in 1..Len(invocations)
    /\ invocations[i].pc = "fetching"
    /\ invocations' = [invocations EXCEPT ![i].pc = "failed"]
    /\ UNCHANGED <<autoLoad, handler, closures, pathLayers, mapLayers, everCached,
                   cacheVars, joinVars, resampleVars, batchVars, colorVars>>

\* The polylines are added to the map; Map.tsx then calls
\* setPathLayers(newLayers).
Draw(i) ==
    /\ i \in 1..Len(invocations)
    /\ invocations[i].pc = "draw"
    /\ mapLayers' = mapLayers \cup {i}
    /\ pathLayers' = (IF component = "Map" THEN {i} ELSE pathLayers)
    /\ invocations' = [invocations EXCEPT ![i].pc = "done"]
    /\ UNCHANGED <<autoLoad, handler, closures, everCached,
                   cacheVars, joinVars, resampleVars, batchVars, colorVars>>

NextView ==
    \/ SetAutoLoad
    \/ \E key \in {TileOfPoint(PtA), TileOfPoint(PtC)} : MoveEnd(key)
    \/ \E i \in 1..MaxMoves : QueryRejects(i)
    \/ \E i \in 1..MaxMoves : QueryReturns(i)
    \/ \E i \in 1..MaxMoves : TileFetched(i)
    \/ \E i \in 1..MaxMoves : TileNotOk(i)
    \/ \E i \in 1..MaxMoves : TileRejects(i)
    \/ \E i \in 1..MaxMoves : Draw(i)

ViewSpec == ViewInit /\ [][NextView]_vars

(***************************************************************************)
(* Claims about the tile cache and the slope computation (Spec).           *)
(***************************************************************************)
Lookups == {ci \in CallIds \X (1..MaxLookups) : ci[2] <= Len(calls[ci[1]].lookups)}

LookupAt(ci) == calls[ci[1]].lookups[ci[2]]

PointAt(ci) == calls[ci[1]].points[ci[2]]

TileKeys == {TileOfPoint(p) : p \in {PtA, PtB, PtC, PtD, PtE}}

EntriesFor(key) == {e \in tileCache : e.key = key}

\* The lookups whose fetch of the key has been issued and has not yet ended
\* in a cache insert or a failure.
InFlight(key) ==
    {ci \in Lookups : LookupAt(ci).key = key /\ LookupAt(ci).pc \in {"fetching", "decoding"}}

\* What the lookup of a point yields from the store's image when its tile
\* was obtained, and null when it was not.
Obtained(ci) ==
    IF LookupAt(ci).tiff = 0 THEN Null
    ELSE ReadElevation(component, PointAt(ci), StoreImage(TileOfPoint(PointAt(ci))))

\* C1: a lookup that starts when its key is in the cache issues no fetch and
\* gets the cached tile, and the cache never holds two entries for one key.
C1_CachedTileNotRefetched ==
    /\ \A ci \in Lookups :
          LookupAt(ci).cachedAtStart =>
              /\ LookupAt(ci).fetches = 0
              /\ LookupAt(ci).fetchId = 0
              /\ LookupAt(ci).outcome = "none"
              /\ LookupAt(ci).tiff = LookupAt(ci).cachedTiff
              /\ LookupAt(ci).tiff # 0
    /\ \A key \in TileKeys : Cardinality(EntriesFor(key)) <= 1

\* A lookup that found its tile in the cache has returned an elevation.
C1_Witness ==
    \E ci \in Lookups :
        /\ LookupAt(ci).cachedAtStart
        /\ LookupAt(ci).pc = "done"
        /\ LookupAt(ci).elevation # Null

\* C5 (as claimed): every pair of sample points at distance 0 has slope 0.
C5_ZeroDistanceSlopeIsZero ==
    \A c \in CallIds :
        calls[c].status = "resolved" =>
            \A i \in 1..(Len(calls[c].points) - 1) :
                GreatCircle(calls[c].points[i], calls[c].points[i + 1]) = 0 =>
                    /\ calls[c].slopes[i].den # 0
                    /\ calls[c].slopes[i].num = 0

\* C6 (as claimed): once the lookups of a path of k points have all settled,
\* the computation has returned k-1 slopes: 0 for a pair with a failed
\* fetch, the slope of the store's elevations for every other pair.
C6_MissingElevationDegradesToZero ==
    \A c \in CallIds :
        (/\ calls[c].status # "idle"
         /\ \A i \in 1..Len(calls[c].lookups) :
                calls[c].lookups[i].pc \in {"done", "rejected"}) =>
            /\ calls[c].status = "resolved"
            /\ Len(calls[c].slopes) = Len(calls[c].points) - 1
            /\ \A i \in 1..(Len(calls[c].points) - 1) :
                  IF \E j \in {i, i + 1} : calls[c].lookups[j].outcome \in {"notok", "neterr"}
                  THEN calls[c].slopes[i] = ZeroSlope
                  ELSE calls[c].slopes[i] =
                          PairSlope(component, calls[c].points[i], calls[c].points[i + 1],
                                    Obtained(<<c, i>>), Obtained(<<c, i + 1>>))

\* C7: in every resolved computation, whatever the order in which the
\* lookups completed, the i-th slope is the slope between sample point i and
\* sample point i+1.
C7_SlopesFollowIndexOrder ==
    \A c \in CallIds :
        calls[c].status = "resolved" =>
            /\ Len(calls[c].slopes) = Len(calls[c].points) - 1
            /\ \A i \in 1..(Len(calls[c].points) - 1) :
                  calls[c].slopes[i] =
                      PairSlope(component, calls[c].points[i], calls[c].points[i + 1],
                                Obtained(<<c, i>>), Obtained(<<c, i + 1>>))

\* A resolved computation of two different slopes whose last lookup
\* completed first.
C7_Witness ==
    \E c \in CallIds :
        /\ calls[c].status = "resolved"
        /\ Len(calls[c].slopes) = 2
        /\ calls[c].slopes[1] # calls[c].slopes[2]
        /\ calls[c].order[1] = 3

\* C8 (as claimed): a lookup whose fetch failed, by a non-success response
\* or by a transport error, has returned absent after one fetch and has
\* left no cache entry.
C8_FailedFetchReturnsAbsent ==
    \A ci \in Lookups :
        LookupAt(ci).outcome \in {"notok", "neterr"} =>
            /\ LookupAt(ci).pc = "done"
            /\ LookupAt(ci).elevation = Null
            /\ LookupAt(ci).fetches = 1
            /\ \A e \in tileCache : e.tiff # LookupAt(ci).fetchId

\* C9 (as claimed): no elevation lookup rejects, and so no slope
\* computation does.
C9_ElevationLookupNeverRejects ==
    /\ \A ci \in Lookups : LookupAt(ci).pc # "rejected"
    /\ \A c \in CallIds : calls[c].status # "rejected"

\* C10 (as claimed): at no time is more than one fetch in flight for a key.
C10_RequestCoalescing ==
    \A key \in TileKeys : Cardinality(InFlight(key)) <= 1

\* C10 (amended): there is no coalescing.  Every lookup that starts while
\* its key is not cached issues exactly one fetch of its own, a lookup that
\* starts while it is cached issues none, and whatever the number of
\* concurrent fetches of a key the cache holds at most one entry for it.
C10_EachMissFetchesOnce ==
    /\ \A ci \in Lookups :
          LookupAt(ci).fetches = (IF LookupAt(ci).cachedAtStart THEN 0 ELSE 1)
    /\ nextFetch = Cardinality({ci \in Lookups : ~LookupAt(ci).cachedAtStart})
    /\ \A ci, cj \in Lookups :
          (ci # cj /\ LookupAt(ci).fetchId # 0) => LookupAt(ci).fetchId # LookupAt(cj).fetchId
    /\ \A key \in TileKeys :
          /\ Cardinality(InFlight(key)) <=
                 Cardinality({ci \in Lookups : LookupAt(ci).key = key /\ ~LookupAt(ci).cachedAtStart})
          /\ Cardinality(EntriesFor(key)) <= 1

\* Two fetches of the same key are in flight, issued by one computation.
C10_Witness ==
    \E ci, cj \in Lookups :
        /\ ci[1] = cj[1]
        /\ ci[2] < cj[2]
        /\ LookupAt(ci).key = LookupAt(cj).key
        /\ LookupAt(ci).pc = "fetching"
        /\ LookupAt(cj).pc = "fetching"

(***************************************************************************)
(* Claims about joinPaths (JoinSpec).                                      *)
(***************************************************************************)
\* How many times a segment index was consumed, over all the paths.
Occurrences(idx) ==
    Cardinality({kj \in (1..Len(members)) \X (1..MaxSegments) :
                    kj[2] <= Len(members[kj[1]]) /\ members[kj[1]][kj[2]] = idx})

\* C2: no segment is consumed twice, and when joinPaths returns every input
\* segment has been consumed by exactly one output path.
C2_JoinPartition ==
    /\ \A idx \in 1..Len(segments) : Occurrences(idx) <= 1
    /\ \A k \in 1..Len(members) : Len(members[k]) <= Len(segments)
    /\ jpc = "done" =>
          /\ Len(longPaths) = Len(members)
          /\ \A idx \in 1..Len(segments) : Occurrences(idx) = 1

\* joinPaths has returned two paths for three segments, one of them merged.
C2_Witness ==
    /\ jpc = "done"
    /\ Len(segments) = 3
    /\ Len(longPaths) = 2
    /\ \E k \in 1..Len(members) : Len(members[k]) = 2

\* Two segments have a head or tail in common (the same point).
SharesEndpoint(a, b) == {a[1], Last(a)} \cap {b[1], Last(b)} # {}

\* C3 (as claimed): two segments that share an exact endpoint come back as
\* one merged path of |A| + |B| - 1 points, in either input order.
C3_TwoSegmentsJoinEitherOrder ==
    (/\ jpc = "done"
     /\ Len(segments) = 2
     /\ SharesEndpoint(segments[1], segments[2])) =>
        /\ Len(longPaths) = 1
        /\ Len(longPaths[1]) = Len(segments[1]) + Len(segments[2]) - 1

(***************************************************************************)
(* Claims about generateSamplingPoints (ResampleSpec).                     *)
(***************************************************************************)
\* C4 (as claimed): the returned sequence starts at the path's first point
\* and ends at its terminal point, also when the interval does not divide
\* the length.
C4_ResampleKeepsEndpoints ==
    (rpc = "done" /\ LineLength(rPath) > 0) =>
        /\ Len(rPoints) >= 1
        /\ rPoints[1] = rPath[1]
        /\ rPoints[Len(rPoints)] = Last(rPath)

(***************************************************************************)
(* Further claims about generateSamplingPoints (ResampleSpec).             *)
(***************************************************************************)
\* Math.ceil(a / b) for b > 0
CeilDiv(a, b) == (a + b - 1) \div b

\* C14 (as claimed): for a path of length L > 0, with n = ceil(L / I), the
\* returned sequence has n + 1 points, or n + 2.
C14_ResampleSize ==
    (rpc = "done" /\ LineLength(rPath) > 0) =>
        Len(rPoints) \in {CeilDiv(LineLength(rPath), interval) + 1,
                          CeilDiv(LineLength(rPath), interval) + 2}

(***************************************************************************)
(* Further claims about the slope computation (Spec).                      *)
(***************************************************************************)
\* C15: in every resolved computation, a pair of sample points with both
\* elevations available and distance d > 0 has the slope
\* (elevation2 - elevation1) / d * 100; elevations 100 and 110 at 100 m
\* give the slope 10.
C15_SlopeFormula ==
    \A c \in CallIds :
        calls[c].status = "resolved" =>
            \A i \in 1..(Len(calls[c].points) - 1) :
                LET e1 == Obtained(<<c, i>>)
                    e2 == Obtained(<<c, i + 1>>)
                    d  == GreatCircle(calls[c].points[i], calls[c].points[i + 1])
                IN  (e1 # Null /\ e2 # Null /\ d > 0) =>
                        /\ calls[c].slopes[i].den > 0
                        /\ calls[c].slopes[i].num * d
                               = (e2[1] - e1[1]) * 100 * calls[c].slopes[i].den
                        /\ (e1[1] = 100 /\ e2[1] = 110 /\ d = 100) =>
                               calls[c].slopes[i].num = 10 * calls[c].slopes[i].den

\* The computation for two points 100 m apart, of elevations 100 and 110,
\* has resolved.
C15_Witness ==
    \E c \in CallIds :
        /\ calls[c].status = "resolved"
        /\ Len(calls[c].points) = 2
        /\ GreatCircle(calls[c].points[1], calls[c].points[2]) = 100
        /\ calls[c].lookups[1].elevation = Some(100)
        /\ calls[c].lookups[2].elevation = Some(110)

\* All the elevations of the computation are numbers, its distances positive.
AllAvailable(c) ==
    /\ \A i \in 1..Len(calls[c].lookups) :
          calls[c].lookups[i].elevation # Null /\ calls[c].lookups[i].elevation # Undefined
    /\ \A i \in 1..(Len(calls[c].points) - 1) :
          GreatCircle(calls[c].points[i], calls[c].points[i + 1]) > 0

InRectangle(ci) ==
    LET img == StoreImage(LookupAt(ci).key)
        px  == pixelX(component, PointAt(ci), img)
        py  == pixelY(component, PointAt(ci), img)
    IN  0 <= px /\ px < img.width /\ 0 <= py /\ py < img.height

\* Every read of the raster is at pixelY * width + pixelX of a pixel inside
\* the image of an obtained tile, and a pixel outside the image gives null
\* without a read.
ReadsWithinImage ==
    \A ci \in Lookups :
        LET img == StoreImage(LookupAt(ci).key)
            px  == pixelX(component, PointAt(ci), img)
            py  == pixelY(component, PointAt(ci), img)
        IN  /\ LookupAt(ci).read # <<>> =>
                  /\ LookupAt(ci).pc = "done"
                  /\ LookupAt(ci).tiff # 0
                  /\ InRectangle(ci)
                  /\ LookupAt(ci).read = <<py * img.width + px>>
                  /\ LookupAt(ci).elevation = Some(img.raster[py * img.width + px])
            /\ (LookupAt(ci).pc = "done" /\ ~InRectangle(ci)) =>
                  /\ LookupAt(ci).elevation = Null
                  /\ LookupAt(ci).read = <<>>

\* C20 (as claimed): getElevation reads the raster only at
\* pixelY * width + pixelX of a pixel inside the image; for a pixel outside
\* it, and whenever the tile is unavailable (its fetch failed, by a
\* non-success response or by a transport error), it returns null and reads
\* nothing.
C20_RasterReadsBoundsChecked ==
    /\ ReadsWithinImage
    /\ \A ci \in Lookups :
          LookupAt(ci).outcome \in {"notok", "neterr"} =>
              /\ LookupAt(ci).pc = "done"
              /\ LookupAt(ci).elevation = Null
              /\ LookupAt(ci).read = <<>>

(***************************************************************************)
(* Further claims about joinPaths (JoinSpec).                              *)
(***************************************************************************)
\* The unvisited segments with the head or the tail at the point's key.
Eligible(end) ==
    {i \in (1..Len(segments)) \ visited :
        getPointKey(end) \in {getPointKey(segments[i][1]), getPointKey(Last(segments[i]))}}

Min(S) == CHOOSE m \in S : \A n \in S : m <= n

\* C18 (as claimed): while some unvisited segment has an endpoint at the
\* trailing point of the path being built, joinPaths goes on joining, and
\* the segment it consumes is the first of them in input order.
C18_FirstEligibleMatchWins ==
    (jpc = "inner" /\ Eligible(currentEnd) # {}) =>
        /\ Connects(endpointMap, visited, currentEnd)
        /\ Connection(endpointMap, currentEnd).segmentIndex = Min(Eligible(currentEnd))

RECURSIVE SumOfMembers(_)
\* The number of segments consumed by the first k started paths.
SumOfMembers(k) == IF k = 0 THEN 0 ELSE Len(members[k]) + SumOfMembers(k - 1)

RECURSIVE SumOfLengths(_, _)
\* The number of points of the first n segments of a member list.
SumOfLengths(ms, n) ==
    IF n = 0 THEN 0 ELSE Len(segments[ms[n]]) + SumOfLengths(ms, n - 1)

\* The merged paths so far, each with the indices of the segments it was
\* built from: the returned ones and the one being built.
Merged ==
    {<<longPaths[k], members[k]>> : k \in 1..Len(longPaths)}
        \cup (IF jpc = "inner" THEN {<<path, members[Len(members)]>>} ELSE {})

\* The two points are adjacent in the segment, in either direction.
AdjacentIn(seg, p, q) ==
    \E j \in 1..(Len(seg) - 1) : {seg[j], seg[j + 1]} = {p, q}

\* C19 (as claimed): a merged path built from m segments has the sum of
\* their point counts less m - 1 points, and every two consecutive points
\* of it are adjacent points of one of the input segments.
C19_JoinKeepsSegmentAdjacency ==
    \A pm \in Merged :
        /\ Len(pm[1]) = SumOfLengths(pm[2], Len(pm[2])) - (Len(pm[2]) - 1)
        /\ \A i \in 1..(Len(pm[1]) - 1) :
              \E j \in 1..Len(pm[2]) : AdjacentIn(segments[pm[2][j]], pm[1][i], pm[1][i + 1])

RECURSIVE BuiltFrom(_, _, _)
\* The path is the first n segments of the member list joined one after the
\* other: the first whole, each later one without its endpoint at the
\* junction, forward when its head has the key of the trailing point and
\* reversed when its tail has.
BuiltFrom(p, ms, n) ==
    IF n = 1 THEN p = segments[ms[1]]
    ELSE LET seg   == segments[ms[n]]
             cut   == Len(p) - (Len(seg) - 1)
             head  == SubSeq(p, 1, cut)
             added == SubSeq(p, cut + 1, Len(p))
         IN  /\ cut >= 1
             /\ BuiltFrom(head, ms, n - 1)
             /\ \/ /\ getPointKey(seg[1]) = getPointKey(Last(head))
                   /\ added = Tail(seg)
                \/ /\ getPointKey(Last(seg)) = getPointKey(Last(head))
                   /\ added = Reverse(SubSeq(seg, 1, Len(seg) - 1))

\* C19 (amended): a segment is consumed forward when its head has the key
\* of the trailing point and reversed when its tail has, without its
\* endpoint at the junction; a merged path built from m segments has the
\* sum of their point counts less m - 1 points.  Two consecutive points of
\* it are adjacent points of an input segment except across a junction,
\* where the point kept is the trailing point of the path, which has the
\* key (the coordinates rounded to 6 decimals) of the endpoint left out and
\* need not be that point.
C19_JoinOrientationUpToKey ==
    \A pm \in Merged :
        /\ Len(pm[1]) = SumOfLengths(pm[2], Len(pm[2])) - (Len(pm[2]) - 1)
        /\ BuiltFrom(pm[1], pm[2], Len(pm[2]))

\* joinPaths has returned a path of two segments or more whose second
\* segment was consumed reversed, at a junction of two different points of
\* one key.
C19_Witness ==
    /\ jpc = "done"
    /\ \E k \in 1..Len(longPaths) :
          /\ Len(members[k]) >= 2
          /\ getPointKey(Last(segments[members[k][2]]))
                 = getPointKey(Last(segments[members[k][1]]))
          /\ getPointKey(segments[members[k][2]][1])
                 # getPointKey(Last(segments[members[k][1]]))
          /\ Last(segments[members[k][2]]) # Last(segments[members[k][1]])

(***************************************************************************)
(* Claims about the moveend handler (ViewSpec).                            *)
(***************************************************************************)
\* Every started invocation has completed, by drawing or by rejecting.
AllCompleted ==
    \A i \in 1..Len(invocations) : invocations[i].pc \in {"done", "failed"}

\* C11 (as claimed): once every started invocation has completed, the path
\* layers on the map are exactly those drawn by the invocation that started
\* last.
C11_LastWriteWins ==
    (invocations # <<>> /\ AllCompleted) =>
        mapLayers = (IF invocations[Len(invocations)].pc = "done"
                     THEN {Len(invocations)} ELSE {})

\* C12 (as claimed): there is one cache instance, created once; a tile that
\* was cached is a cache hit in every lookup that comes later, and the cache
\* of the registered handler holds every tile ever cached.
C12_SingleProcessWideCache ==
    /\ Len(closures) <= 1
    /\ \A i \in 1..Len(invocations) : invocations[i].known => invocations[i].hit
    /\ handler # 0 =>
          \A key \in everCached : CacheHas(closures[handler].tileCache, key)

(***************************************************************************)
(* Claims about the drawing of a batch of paths (BatchSpec).               *)
(***************************************************************************)
\* A path of one point, or of length zero.
Degenerate(line) == Len(line) = 1 \/ LineLength(line) = 0

\* The processing of the batch is over and no lookup rejected.
BatchEndedWell ==
    /\ bpc = "done"
    /\ \A k \in 1..Len(batch) : bOut[k].pc # "rejected"

\* C13 (as claimed): a path of one point or of length zero gets no slope
\* and no polyline, and when the batch has been processed every other path
\* of it has been drawn, with a slope for each of its polylines.
C13_DegeneratePathsIsolated ==
    /\ \A k \in 1..Len(batch) :
          Degenerate(batch[k]) => (bOut[k].slopes = <<>> /\ bOut[k].drawn = 0)
    /\ BatchEndedWell =>
          \A k \in 1..Len(batch) :
              ~Degenerate(batch[k]) =>
                  /\ bOut[k].pc = "drawn"
                  /\ bOut[k].drawn >= 1
                  /\ Len(bOut[k].slopes) = bOut[k].drawn

(***************************************************************************)
(* Claims about getSlopeColor (ColorSpec).                                 *)
(***************************************************************************)
\* The weight of the channel that stands for steepness: red for a climb
\* and green for a descent in BicycleMap.tsx, red in Map.tsx.
HotWeight(comp, color) ==
    IF comp = "BicycleMap" THEN color.red + color.green ELSE color.red

\* The weight of the channel that stands for flatness.
ColdWeight(comp, color) == color.blue

InClampRange(slope) == -10 * SlopeUnit <= slope /\ slope <= 10 * SlopeUnit

\* C16 (as claimed): of two slopes inside the clamp range, the one of the
\* larger magnitude has the strictly larger hot weight and the strictly
\* smaller cold weight; a slope at or beyond a clamp bound has the color of
\* the bound.
C16_ColorMonotonicAndClamped ==
    cpc = "done" =>
        /\ (InClampRange(cSlope[1]) /\ InClampRange(cSlope[2])
                /\ Abs(cSlope[1]) < Abs(cSlope[2])) =>
              /\ HotWeight(component, cColor[2]) > HotWeight(component, cColor[1])
              /\ ColdWeight(component, cColor[2]) < ColdWeight(component, cColor[1])
        /\ cSlope[1] >= 10 * SlopeUnit =>
              cColor[1] = getSlopeColor(component, 10 * SlopeUnit)
        /\ cSlope[1] <= -10 * SlopeUnit =>
              cColor[1] = getSlopeColor(component, -10 * SlopeUnit)

(***************************************************************************)
(* Termination of joinPaths (JoinFairSpec).                                *)
(***************************************************************************)
\* The iterations of the inner loop so far that consumed a segment: every
\* member of a path but its first.
InnerIterations == SumOfMembers(Len(members)) - Len(members)

\* An iteration of the inner loop visits a segment that was not visited.
InnerStepVisitsNew ==
    (jpc = "inner" /\ jpc' = "inner" /\ path' # path) =>
        /\ Cardinality(visited') = Cardinality(visited) + 1
        /\ visited \subseteq visited'

\* C21: joinPaths terminates.  Every iteration of the inner loop marks a
\* segment visited that was not, so the loop iterates at most once per
\* segment; there is at most one output path per input segment; and
\* joinPaths returns, for lists with closed loops and with cycles of
\* segments as for any other.
C21_JoinPathsTerminates ==
    /\ [](/\ InnerIterations + Len(members) = Cardinality(visited)
          /\ InnerIterations <= Len(segments)
          /\ Len(longPaths) <= Len(members)
          /\ Len(members) <= Len(segments))
    /\ [][InnerStepVisitsNew]_vars
    /\ <>(jpc = "done")

\* joinPaths has returned one path made of the three segments of a cycle:
\* the path ends at the key it starts from.
C21_Witness ==
    /\ jpc = "done"
    /\ Len(segments) = 3
    /\ Len(longPaths) = 1
    /\ Len(members[1]) = 3
    /\ getPointKey(Last(longPaths[1])) = getPointKey(longPaths[1][1])
    /\ \A i \in 1..3 : getPointKey(segments[i][1]) # getPointKey(Last(segments[i]))

====
